---------------------------- MODULE Spec2Model ----------------------------
(***************************************************************************)
(* Model of src/mongo/util/net/http_client_curl.cpp: the process-wide      *)
(* CurlLibraryManager, the two libcurl callbacks (WriteMemoryCallback,     *)
(* ReadMemoryCallback) and CurlHttpClient::postAsync / doPost.             *)
(*                                                                         *)
(* libcurl, the thread pool executor, the promise and the byte buffers are *)
(* collaborators outside the file: they are modelled at the call sites of  *)
(* the file by the outcomes the code itself distinguishes (a null handle,  *)
(* a CURLcode, a Status, a short count), chosen nondeterministically.      *)
(***************************************************************************)
EXTENDS Integers, Sequences, FiniteSets, TLC

VARIABLES
    \* ---- process and CurlLibraryManager ----
    phase,                \* "startup" | "running" | "aborted" | "lifecycle" | "exited"
    _initialized,         \* CurlLibraryManager::_initialized
    sslSupport,           \* curl_version_info()->features & CURL_VERSION_SSL
    globalInits,          \* number of curl_global_init() calls made
    globalCleanups,       \* number of curl_global_cleanup() calls made
    initLog,              \* one record per initialize() call, in call order
    testCommandsEnabled,  \* getTestCommandsEnabled()
    \* ---- one entry per postAsync call ----
    callerPc,             \* position of the thread inside postAsync
    url,                  \* scheme of urlString
    data,                 \* the request payload (*data)
    workPc,               \* position of the unit of work handed to the pool
    promise,              \* pf.promise / shared_promise
    myHandle,             \* the easy handle and the options set on it
    cdrc,                 \* ConstDataRangeCursor: number of payload bytes consumed
    dataBuilder,          \* DataBuilder: bytes accumulated from the response
    result,               \* CURLcode returned by curl_easy_perform
    responseCode,         \* CURLINFO_RESPONSE_CODE held by the handle
    sent,                 \* bytes the engine copied out through ReadMemoryCallback
    offered,              \* bytes the engine offered to WriteMemoryCallback
    idle,                 \* callbacks so far that moved no byte
    hist                  \* what happened on the call's path through doPost

lifeVars == <<phase, _initialized, sslSupport, globalInits, globalCleanups, initLog>>
callVars == <<callerPc, url, data, workPc, promise, myHandle, cdrc, dataBuilder,
              result, responseCode, sent, offered, idle, hist>>
vars == <<lifeVars, testCommandsEnabled, callVars>>

-----------------------------------------------------------------------------
(* Bounds of the model *)

MaxPayload == 2        \* longest request payload
MaxBody == 2           \* longest response body
MaxChunk == 2          \* largest size*nmemb / size*nitems the engine uses
MaxIdleCallbacks == 1  \* callbacks per transfer that move no byte
MaxInitCalls == 5      \* initialize() calls in the lifecycle specification

Min(a, b) == IF a < b THEN a ELSE b

\* Byte i of a payload or of a response body is the number i: every byte is
\* distinct, so a lost, repeated or reordered byte changes the sequence.
Bytes(from, n) == [i \in 1..n |-> from + i]

Payloads == {Bytes(0, n) : n \in 0..MaxPayload}

Schemes == {"https", "http"}

StatusCodes == {200, 201, 204, 301, 404, 500}

-----------------------------------------------------------------------------
(* Status values and their messages *)

DigitChar(d) == <<"0", "1", "2", "3", "4", "5", "6", "7", "8", "9">>[d + 1]

RECURSIVE Digits(_)
\* operator<< of str::stream on an integer: its decimal digits.
Digits(n) == IF n < 10 THEN <<DigitChar(n)>> ELSE Digits(n \div 10) \o <<DigitChar(n % 10)>>

OkStatus == [code |-> "OK", reason |-> <<>>]

MkStatus(code, reason) == [code |-> code, reason |-> reason]

\* s occurs in t as a contiguous run.
Contains(t, s) ==
    \E k \in 0..(Len(t) - Len(s)) : SubSeq(t, k + 1, k + Len(s)) = s

-----------------------------------------------------------------------------
(* CurlLibraryManager *)

InitCodes == {"CURLE_OK", "CURLE_FAILED_INIT"}

\* Mutant of initialize: the early return on _initialized is missing.
initializeNoEarlyReturn(inited, ret, ssl) ==
    IF ret # "CURLE_OK"
    THEN [status |-> MkStatus("InternalError", <<"Failed to initialize CURL: ", ret>>),
          inited |-> inited, startups |-> 1]
    ELSE IF ~ssl
    THEN [status |-> MkStatus("InternalError", <<"Curl lacks SSL support, cannot continue">>),
          inited |-> inited, startups |-> 1]
    ELSE [status |-> OkStatus, inited |-> TRUE, startups |-> 1]

\* Mutant of initialize: the check of CURL_VERSION_SSL is missing.
initializeNoSslCheck(inited, ret, ssl) ==
    IF inited
    THEN [status |-> OkStatus, inited |-> TRUE, startups |-> 0]
    ELSE IF ret # "CURLE_OK"
    THEN [status |-> MkStatus("InternalError", <<"Failed to initialize CURL: ", ret>>),
          inited |-> FALSE, startups |-> 1]
    ELSE [status |-> OkStatus, inited |-> TRUE, startups |-> 1]

\* CurlLibraryManager::initialize(): the Status returned, the new value of
\* _initialized and the number of curl_global_init() calls made (0 or 1), for
\* the value ret that curl_global_init() returns when it is called.
initialize(inited, ret, ssl) ==
    IF inited
    THEN [status |-> OkStatus, inited |-> TRUE, startups |-> 0]
    ELSE IF ret # "CURLE_OK"
    THEN [status |-> MkStatus("InternalError", <<"Failed to initialize CURL: ", ret>>),
          inited |-> FALSE, startups |-> 1]
    ELSE IF ~ssl
    THEN [status |-> MkStatus("InternalError", <<"Curl lacks SSL support, cannot continue">>),
          inited |-> FALSE, startups |-> 1]
    ELSE [status |-> OkStatus, inited |-> TRUE, startups |-> 1]

\* One call of initialize() and its entry in the log of calls.
DoInitialize(ret, r) ==
    /\ r = initialize(_initialized, ret, sslSupport)
    /\ _initialized' = r.inited
    /\ globalInits' = globalInits + r.startups
    /\ initLog' = Append(initLog, [status |-> r.status, before |-> _initialized,
                                  startups |-> r.startups])

\* Mutant of HttpClientCurlInitializer: the Status of initialize() is dropped
\* and the startup goes on.
HttpClientCurlInitializerIgnoresStatus ==
    /\ phase = "startup"
    /\ \E ret \in InitCodes :
         \E r \in {initialize(_initialized, ret, sslSupport)} :
            /\ DoInitialize(ret, r)
            /\ phase' = "running"
    /\ UNCHANGED <<sslSupport, globalCleanups, testCommandsEnabled, callVars>>

\* MONGO_INITIALIZER_GENERAL(HttpClientCurl): runs initialize() once during
\* startup; a failed initializer ends the startup.
HttpClientCurlInitializer ==
    /\ phase = "startup"
    /\ \E ret \in InitCodes :
         \E r \in {initialize(_initialized, ret, sslSupport)} :
            /\ DoInitialize(ret, r)
            /\ phase' = IF r.status.code = "OK" THEN "running" ELSE "aborted"
    /\ UNCHANGED <<sslSupport, globalCleanups, testCommandsEnabled, callVars>>

\* initialize() called directly, any number of times in sequence.
CallInitialize ==
    /\ phase = "lifecycle"
    /\ Len(initLog) < MaxInitCalls
    /\ \E ret \in InitCodes :
         \E r \in {initialize(_initialized, ret, sslSupport)} : DoInitialize(ret, r)
    /\ UNCHANGED <<phase, sslSupport, globalCleanups, testCommandsEnabled, callVars>>

InFlight(c) == workPc[c] \in {"queued", "perform", "sending", "receiving", "performed"}

\* The process reaches its exit, where static objects are destroyed, only
\* after the executor has run the work it accepted and no thread is inside
\* postAsync.
TransfersJoinedAtExit ==
    \A c \in DOMAIN workPc : ~InFlight(c) /\ callerPc[c] # "scheduled"

\* Mutant of StaticDestructor: curl_global_cleanup() is called whether or not
\* _initialized is set.
StaticDestructorUnconditional ==
    /\ phase \in {"running", "aborted", "lifecycle"}
    /\ TransfersJoinedAtExit
    /\ phase' = "exited"
    /\ globalCleanups' = globalCleanups + 1
    /\ UNCHANGED <<_initialized, sslSupport, globalInits, initLog,
                   testCommandsEnabled, callVars>>

\* ~CurlLibraryManager(): the destructor of the static object, at process exit.
StaticDestructor ==
    /\ phase \in {"running", "aborted", "lifecycle"}
    /\ TransfersJoinedAtExit
    /\ phase' = "exited"
    /\ globalCleanups' = IF _initialized THEN globalCleanups + 1 ELSE globalCleanups
    /\ UNCHANGED <<_initialized, sslSupport, globalInits, initLog,
                   testCommandsEnabled, callVars>>

-----------------------------------------------------------------------------
(* The promise shared by postAsync and doPost *)

Pending == [st |-> "pending", status |-> OkStatus, val |-> <<>>, writes |-> 0]

\* shared_promise.setError(status)
setError(p, status) ==
    [st |-> "error", status |-> status, val |-> <<>>, writes |-> p.writes + 1]

\* shared_promise.emplaceValue(bytes)
emplaceValue(p, bytes) ==
    [st |-> "value", status |-> OkStatus, val |-> bytes, writes |-> p.writes + 1]

\* exceptionToStatus(): the Status of the exception in flight, never OK.
exceptionToStatus == MkStatus("UnknownError", <<"Caught exception">>)

-----------------------------------------------------------------------------
(* The callbacks handed to the engine *)

\* DataBuilder::writeAndAdvance: all of the range is appended, or none of it.
writeAndAdvance(mem, range, appendOk) ==
    [isOK |-> appendOk, mem |-> IF appendOk THEN mem \o range ELSE mem]

\* Mutant of WriteMemoryCallback: a failed append is not reported.
WriteMemoryCallbackIgnoresFailure(mem, chunk, appendOk) ==
    [ret |-> Len(chunk), mem |-> writeAndAdvance(mem, chunk, appendOk).mem]

\* WriteMemoryCallback(ptr, size, nmemb, data): chunk is the size*nmemb bytes
\* at ptr, mem the DataBuilder behind data. The count returned and the
\* DataBuilder afterwards.
WriteMemoryCallback(mem, chunk, appendOk) ==
    LET realsize == Len(chunk)
        w == writeAndAdvance(mem, chunk, appendOk)
    IN  IF ~w.isOK
        THEN [ret |-> 0, mem |-> w.mem]
        ELSE [ret |-> realsize, mem |-> w.mem]

\* Mutant of ReadMemoryCallback: the count returned is size*nitems.
ReadMemoryCallbackReturnsRequest(pos, payload, m) ==
    LET length == Len(payload) - pos
        readSize == Min(m, length)
    IN  IF length > 0
        THEN [ret |-> m,
              buffer |-> SubSeq(payload, pos + 1, pos + readSize),
              pos |-> pos + readSize,
              invariantOk |-> readSize <= length]
        ELSE [ret |-> 0, buffer |-> <<>>, pos |-> pos, invariantOk |-> TRUE]

\* Mutant of ReadMemoryCallback: the cursor is advanced by size*nitems.
ReadMemoryCallbackAdvancesByRequest(pos, payload, m) ==
    LET length == Len(payload) - pos
        readSize == Min(m, length)
    IN  IF length > 0
        THEN [ret |-> readSize,
              buffer |-> SubSeq(payload, pos + 1, pos + readSize),
              pos |-> pos + m,
              invariantOk |-> m <= length]
        ELSE [ret |-> 0, buffer |-> <<>>, pos |-> pos, invariantOk |-> TRUE]

\* Mutant of ReadMemoryCallback: the cursor is not advanced.
ReadMemoryCallbackNoAdvance(pos, payload, m) ==
    LET length == Len(payload) - pos
        readSize == Min(m, length)
    IN  IF length > 0
        THEN [ret |-> readSize,
              buffer |-> SubSeq(payload, pos + 1, pos + readSize),
              pos |-> pos,
              invariantOk |-> TRUE]
        ELSE [ret |-> 0, buffer |-> <<>>, pos |-> pos, invariantOk |-> TRUE]

\* ReadMemoryCallback(buffer, size, nitems, instream): pos is the number of
\* bytes the cursor behind instream has consumed of payload, m is size*nitems.
\* The count returned, the bytes copied into buffer, the cursor afterwards and
\* whether the invariant on advance() held.
ReadMemoryCallback(pos, payload, m) ==
    LET length == Len(payload) - pos
        readSize == Min(m, length)
    IN  IF length > 0
        THEN [ret |-> readSize,
              buffer |-> SubSeq(payload, pos + 1, pos + readSize),
              pos |-> pos + readSize,
              invariantOk |-> readSize <= length]
        ELSE [ret |-> 0, buffer |-> <<>>, pos |-> pos, invariantOk |-> TRUE]

-----------------------------------------------------------------------------
(* CurlHttpClient::postAsync *)

NoHandle == [state |-> "none", protocols |-> {}, postFieldSize |-> 0]

\* req and ret are size*nitems and the count returned of the latest call of
\* ReadMemoryCallback (-1: none yet); advanceOk: the invariant on advance()
\* has held in every call.
NoHist == [handle |-> "unset", info |-> "unset", fault |-> FALSE,
           chunks |-> 0, appendFailed |-> FALSE, appendOk |-> TRUE,
           shortCount |-> FALSE,
           req |-> -1, ret |-> -1, advanceOk |-> TRUE]

\* Mutant of uassertStatusOK: the status of scheduleWork is ignored.
uassertIgnored(accepted) == "returned"

\* uassertStatusOK(status) followed by the return of the future: postAsync
\* throws when the pool did not accept the work.
uassertStatusOK(accepted) == IF accepted THEN "returned" ELSE "raised"

\* postAsync up to and including _executor->scheduleWork(...): the promise and
\* future are made, the url and the payload are captured, and the pool accepts
\* the unit of work or rejects it.
PostAsyncSchedule(c) ==
    /\ phase = "running"
    /\ callerPc[c] = "idle"
    /\ \E u \in Schemes, d \in Payloads, accepted \in BOOLEAN :
        /\ url' = [url EXCEPT ![c] = u]
        /\ data' = [data EXCEPT ![c] = d]
        /\ workPc' = [workPc EXCEPT ![c] = IF accepted THEN "queued" ELSE "rejected"]
    /\ callerPc' = [callerPc EXCEPT ![c] = "scheduled"]
    /\ promise' = [promise EXCEPT ![c] = Pending]
    /\ UNCHANGED <<lifeVars, testCommandsEnabled, myHandle, cdrc, dataBuilder,
                   result, responseCode, sent, offered, idle, hist>>

\* Mutant of PostAsyncReturn: postAsync waits for the promise to be written
\* before it returns the future.
PostAsyncReturnWaits(c) ==
    /\ callerPc[c] = "scheduled"
    /\ workPc[c] = "rejected" \/ promise[c].st # "pending"
    /\ callerPc' = [callerPc EXCEPT ![c] = uassertStatusOK(workPc[c] # "rejected")]
    /\ UNCHANGED <<lifeVars, testCommandsEnabled, url, data, workPc, promise,
                   myHandle, cdrc, dataBuilder, result, responseCode, sent,
                   offered, idle, hist>>

\* postAsync after scheduleWork returned: uassertStatusOK(status), then the
\* future is returned.
PostAsyncReturn(c) ==
    /\ callerPc[c] = "scheduled"
    /\ callerPc' = [callerPc EXCEPT ![c] = uassertStatusOK(workPc[c] # "rejected")]
    /\ UNCHANGED <<lifeVars, testCommandsEnabled, url, data, workPc, promise,
                   myHandle, cdrc, dataBuilder, result, responseCode, sent,
                   offered, idle, hist>>

-----------------------------------------------------------------------------
(* CurlHttpClient::doPost *)

\* Mutant of AllowedProtocols: http is allowed whatever the flag says.
AllowedProtocolsAlwaysHttp(testEnabled) == {"https", "http"}

\* The CURLOPT_PROTOCOLS value doPost sets from getTestCommandsEnabled().
AllowedProtocols(testEnabled) ==
    IF testEnabled THEN {"https", "http"} ELSE {"https"}

\* Mutant of catchAll: the handler is missing, the exception leaves doPost.
catchNothing(p) == [promise |-> p, pc |-> "escaped"]

\* catch (...) { shared_promise.setError(exceptionToStatus()); }
catchAll(p) == [promise |-> setError(p, exceptionToStatus), pc |-> "done"]

curl_easy_strerror(code) == code

\* Mutant of doPostOutcome: the return after the status-code error is missing.
doPostOutcomeFallsThrough(p, res, info, statusCode, body) ==
    IF res # "CURLE_OK"
    THEN setError(p, MkStatus("OperationFailed",
             <<"Bad HTTP response from API server: ", curl_easy_strerror(res)>>))
    ELSE IF info # "CURLE_OK"
    THEN setError(p, MkStatus("OperationFailed",
             <<"Unexpected error retrieving response: ", curl_easy_strerror(info)>>))
    ELSE IF statusCode # 200
    THEN emplaceValue(setError(p, MkStatus("OperationFailed",
             <<"Unexpected http status code from server: ">> \o Digits(statusCode))), body)
    ELSE emplaceValue(p, body)

\* Mutant of doPostOutcome: the status-code branch returns without writing.
doPostOutcomeDropsError(p, res, info, statusCode, body) ==
    IF res # "CURLE_OK"
    THEN setError(p, MkStatus("OperationFailed",
             <<"Bad HTTP response from API server: ", curl_easy_strerror(res)>>))
    ELSE IF info # "CURLE_OK"
    THEN setError(p, MkStatus("OperationFailed",
             <<"Unexpected error retrieving response: ", curl_easy_strerror(info)>>))
    ELSE IF statusCode # 200
    THEN p
    ELSE emplaceValue(p, body)

\* Mutant of doPostOutcome: every 2xx status code counts as success.
doPostOutcomeAny2xx(p, res, info, statusCode, body) ==
    IF res # "CURLE_OK"
    THEN setError(p, MkStatus("OperationFailed",
             <<"Bad HTTP response from API server: ", curl_easy_strerror(res)>>))
    ELSE IF info # "CURLE_OK"
    THEN setError(p, MkStatus("OperationFailed",
             <<"Unexpected error retrieving response: ", curl_easy_strerror(info)>>))
    ELSE IF statusCode < 200 \/ statusCode >= 300
    THEN setError(p, MkStatus("OperationFailed",
             <<"Unexpected http status code from server: ">> \o Digits(statusCode)))
    ELSE emplaceValue(p, body)

\* Mutant of doPostOutcome: the message leaves the status code out.
doPostOutcomeNoCode(p, res, info, statusCode, body) ==
    IF res # "CURLE_OK"
    THEN setError(p, MkStatus("OperationFailed",
             <<"Bad HTTP response from API server: ", curl_easy_strerror(res)>>))
    ELSE IF info # "CURLE_OK"
    THEN setError(p, MkStatus("OperationFailed",
             <<"Unexpected error retrieving response: ", curl_easy_strerror(info)>>))
    ELSE IF statusCode # 200
    THEN setError(p, MkStatus("OperationFailed",
             <<"Unexpected http status code from server: ">>))
    ELSE emplaceValue(p, body)

\* doPost after curl_easy_perform returned res: the promise after the one
\* write the code makes. info is the CURLcode of curl_easy_getinfo, statusCode
\* the response code it stored, body the DataBuilder's bytes.
doPostOutcome(p, res, info, statusCode, body) ==
    IF res # "CURLE_OK"
    THEN setError(p, MkStatus("OperationFailed",
             <<"Bad HTTP response from API server: ", curl_easy_strerror(res)>>))
    ELSE IF info # "CURLE_OK"
    THEN setError(p, MkStatus("OperationFailed",
             <<"Unexpected error retrieving response: ", curl_easy_strerror(info)>>))
    ELSE IF statusCode # 200
    THEN setError(p, MkStatus("OperationFailed",
             <<"Unexpected http status code from server: ">> \o Digits(statusCode)))
    ELSE emplaceValue(p, body)

\* Mutant of DoPostBegin: the return after the null-handle error is missing,
\* doPost goes on to configure and run the transfer.
DoPostBeginNoReturn(c) ==
    /\ workPc[c] = "queued"
    /\ \E handleOk \in BOOLEAN, fault \in BOOLEAN :
        /\ hist' = [hist EXCEPT ![c].handle = IF handleOk THEN "ok" ELSE "null",
                                ![c].fault = fault]
        /\ myHandle' = [myHandle EXCEPT ![c] =
               [state |-> IF fault THEN "released"
                          ELSE IF handleOk THEN "live" ELSE "null",
                protocols |-> AllowedProtocols(testCommandsEnabled),
                postFieldSize |-> IF fault THEN 0 ELSE Len(data[c])]]
        /\ IF fault
           THEN /\ promise' = [promise EXCEPT ![c] = catchAll(promise[c]).promise]
                /\ workPc' = [workPc EXCEPT ![c] = catchAll(promise[c]).pc]
           ELSE IF ~handleOk
           THEN /\ promise' = [promise EXCEPT ![c] = setError(promise[c],
                       MkStatus("InternalError", <<"Curl initialization failed">>))]
                /\ workPc' = [workPc EXCEPT ![c] = "perform"]
           ELSE /\ promise' = promise
                /\ workPc' = [workPc EXCEPT ![c] = "perform"]
    /\ cdrc' = [cdrc EXCEPT ![c] = 0]
    /\ dataBuilder' = [dataBuilder EXCEPT ![c] = <<>>]
    /\ UNCHANGED <<lifeVars, testCommandsEnabled, callerPc, url, data, result,
                   responseCode, sent, offered, idle>>

\* The pool runs the unit of work: doPost from its first line to the call of
\* curl_easy_perform. handleOk: curl_easy_init() returned a handle. fault: an
\* exception is thrown on the way (an allocation that fails), before any
\* write of the promise; the catch-all handler takes it.
DoPostBegin(c) ==
    /\ workPc[c] = "queued"
    /\ \E handleOk \in BOOLEAN, fault \in BOOLEAN :
        /\ hist' = [hist EXCEPT ![c].handle = IF handleOk THEN "ok" ELSE "null",
                                ![c].fault = fault]
        /\ myHandle' = [myHandle EXCEPT ![c] =
               IF ~handleOk THEN [NoHandle EXCEPT !.state = "null"]
               ELSE [state |-> IF fault THEN "released" ELSE "live",
                     protocols |-> AllowedProtocols(testCommandsEnabled),
                     postFieldSize |-> IF fault THEN 0 ELSE Len(data[c])]]
        /\ IF fault
           THEN /\ promise' = [promise EXCEPT ![c] = catchAll(promise[c]).promise]
                /\ workPc' = [workPc EXCEPT ![c] = catchAll(promise[c]).pc]
           ELSE IF ~handleOk
           THEN /\ promise' = [promise EXCEPT ![c] = setError(promise[c],
                       MkStatus("InternalError", <<"Curl initialization failed">>))]
                /\ workPc' = [workPc EXCEPT ![c] = "done"]
           ELSE /\ promise' = promise
                /\ workPc' = [workPc EXCEPT ![c] = "perform"]
    /\ cdrc' = [cdrc EXCEPT ![c] = 0]
    /\ dataBuilder' = [dataBuilder EXCEPT ![c] = <<>>]
    /\ UNCHANGED <<lifeVars, testCommandsEnabled, callerPc, url, data, result,
                   responseCode, sent, offered, idle>>

\* doPost from the return of curl_easy_perform to its end.
DoPostFinish(c) ==
    /\ workPc[c] = "performed"
    /\ \E info \in {"CURLE_OK", "CURLE_UNKNOWN_OPTION"}, fault \in BOOLEAN :
        /\ hist' = [hist EXCEPT ![c].fault = fault,
                                ![c].info = IF result[c] # "CURLE_OK" THEN "unset"
                                            ELSE IF info = "CURLE_OK" THEN "ok" ELSE "failed"]
        /\ IF fault
           THEN /\ promise' = [promise EXCEPT ![c] = catchAll(promise[c]).promise]
                /\ workPc' = [workPc EXCEPT ![c] = catchAll(promise[c]).pc]
           ELSE /\ promise' = [promise EXCEPT ![c] = doPostOutcome(promise[c],
                       result[c], info, responseCode[c], dataBuilder[c])]
                /\ workPc' = [workPc EXCEPT ![c] = "done"]
    /\ myHandle' = [myHandle EXCEPT ![c].state = "released"]
    /\ UNCHANGED <<lifeVars, testCommandsEnabled, callerPc, url, data, cdrc,
                   dataBuilder, result, responseCode, sent, offered, idle>>

-----------------------------------------------------------------------------
(* curl_easy_perform: the engine's side of the blocking call in doPost *)

\* The engine starts the transfer: a url whose scheme is not among the
\* protocols set on the handle is refused before any callback runs; otherwise
\* the connection is made, or fails.
PerformStart(c) ==
    /\ workPc[c] = "perform"
    /\ IF url[c] \notin myHandle[c].protocols
       THEN /\ result' = [result EXCEPT ![c] = "CURLE_UNSUPPORTED_PROTOCOL"]
            /\ workPc' = [workPc EXCEPT ![c] = "performed"]
       ELSE \E connected \in BOOLEAN :
            /\ result' = [result EXCEPT ![c] =
                   IF connected THEN "unset" ELSE "CURLE_COULDNT_CONNECT"]
            /\ workPc' = [workPc EXCEPT ![c] =
                   IF connected THEN "sending" ELSE "performed"]
    /\ UNCHANGED <<lifeVars, testCommandsEnabled, callerPc, url, data, promise,
                   myHandle, cdrc, dataBuilder, responseCode, sent, offered,
                   idle, hist>>

\* The engine asks for up to m bytes of the request body.
EngineRead(c) ==
    /\ workPc[c] = "sending"
    /\ \E m \in 0..MaxChunk :
        \E r \in {ReadMemoryCallback(cdrc[c], data[c], m)} :
            /\ r.ret > 0 \/ idle[c] < MaxIdleCallbacks
            /\ cdrc' = [cdrc EXCEPT ![c] = r.pos]
            /\ sent' = [sent EXCEPT ![c] = sent[c] \o r.buffer]
            /\ idle' = [idle EXCEPT ![c] = IF r.ret = 0 THEN idle[c] + 1 ELSE idle[c]]
            /\ hist' = [hist EXCEPT ![c].req = m,
                                    ![c].ret = r.ret,
                                    ![c].advanceOk = hist[c].advanceOk /\ r.invariantOk]
    /\ UNCHANGED <<lifeVars, testCommandsEnabled, callerPc, url, data, workPc,
                   promise, myHandle, dataBuilder, result, responseCode,
                   offered>>

\* The whole request body, CURLOPT_POSTFIELDSIZE bytes, has been sent.
BodySent(c) ==
    \/ workPc[c] = "receiving"
    \/ workPc[c] = "sending" /\ Len(sent[c]) = myHandle[c].postFieldSize

\* Mutant of EngineWrite: CURLOPT_WRITEDATA names one buffer that every
\* transfer appends to.
EngineWriteSharedBuffer(c) ==
    /\ BodySent(c)
    /\ \E k \in 0..MaxChunk, appendOk \in BOOLEAN :
        \E w \in {WriteMemoryCallback(dataBuilder[c], Bytes(Len(offered[c]), k), appendOk)} :
            /\ Len(offered[c]) + k <= MaxBody
            /\ k > 0 \/ idle[c] < MaxIdleCallbacks
            /\ offered' = [offered EXCEPT ![c] = offered[c] \o Bytes(Len(offered[c]), k)]
            /\ dataBuilder' = [d \in DOMAIN dataBuilder |->
                   IF d = c THEN w.mem
                   ELSE writeAndAdvance(dataBuilder[d], Bytes(Len(offered[c]), k),
                                        appendOk).mem]
            /\ idle' = [idle EXCEPT ![c] = IF k = 0 THEN idle[c] + 1 ELSE idle[c]]
            /\ hist' = [hist EXCEPT ![c].chunks = hist[c].chunks + 1,
                                    ![c].appendFailed = hist[c].appendFailed \/ ~appendOk,
                                    ![c].appendOk = appendOk,
                                    ![c].shortCount = w.ret # k]
            /\ result' = [result EXCEPT ![c] =
                   IF w.ret # k THEN "CURLE_WRITE_ERROR" ELSE "unset"]
            /\ workPc' = [workPc EXCEPT ![c] =
                   IF w.ret # k THEN "performed" ELSE "receiving"]
    /\ UNCHANGED <<lifeVars, testCommandsEnabled, callerPc, url, data, promise,
                   myHandle, cdrc, responseCode, sent>>

\* The engine offers the next k bytes of the response body to the write
\* callback; a count other than k makes it stop with CURLE_WRITE_ERROR.
EngineWrite(c) ==
    /\ BodySent(c)
    /\ \E k \in 0..MaxChunk, appendOk \in BOOLEAN :
        \E w \in {WriteMemoryCallback(dataBuilder[c], Bytes(Len(offered[c]), k), appendOk)} :
            /\ Len(offered[c]) + k <= MaxBody
            /\ k > 0 \/ idle[c] < MaxIdleCallbacks
            /\ offered' = [offered EXCEPT ![c] = offered[c] \o Bytes(Len(offered[c]), k)]
            /\ dataBuilder' = [dataBuilder EXCEPT ![c] = w.mem]
            /\ idle' = [idle EXCEPT ![c] = IF k = 0 THEN idle[c] + 1 ELSE idle[c]]
            /\ hist' = [hist EXCEPT ![c].chunks = hist[c].chunks + 1,
                                    ![c].appendFailed = hist[c].appendFailed \/ ~appendOk,
                                    ![c].appendOk = appendOk,
                                    ![c].shortCount = w.ret # k]
            /\ result' = [result EXCEPT ![c] =
                   IF w.ret # k THEN "CURLE_WRITE_ERROR" ELSE "unset"]
            /\ workPc' = [workPc EXCEPT ![c] =
                   IF w.ret # k THEN "performed" ELSE "receiving"]
    /\ UNCHANGED <<lifeVars, testCommandsEnabled, callerPc, url, data, promise,
                   myHandle, cdrc, responseCode, sent>>

\* The transfer runs into CURLOPT_TIMEOUT or loses its connection.
EngineTimeout(c) ==
    /\ workPc[c] \in {"sending", "receiving"}
    /\ result' = [result EXCEPT ![c] = "CURLE_OPERATION_TIMEDOUT"]
    /\ workPc' = [workPc EXCEPT ![c] = "performed"]
    /\ UNCHANGED <<lifeVars, testCommandsEnabled, callerPc, url, data, promise,
                   myHandle, cdrc, dataBuilder, responseCode, sent, offered,
                   idle, hist>>

\* The response is complete: curl_easy_perform returns CURLE_OK and the handle
\* holds the status code of the response.
EngineFinish(c) ==
    /\ BodySent(c)
    /\ \E code \in StatusCodes : responseCode' = [responseCode EXCEPT ![c] = code]
    /\ result' = [result EXCEPT ![c] = "CURLE_OK"]
    /\ workPc' = [workPc EXCEPT ![c] = "performed"]
    /\ UNCHANGED <<lifeVars, testCommandsEnabled, callerPc, url, data, promise,
                   myHandle, cdrc, dataBuilder, sent, offered, idle, hist>>

-----------------------------------------------------------------------------
(* Specifications *)

\* The postAsync calls of a run.
Calls == {"c1"}

InitCalls(C) ==
    /\ callerPc = [c \in C |-> "idle"]
    /\ url = [c \in C |-> "none"]
    /\ data = [c \in C |-> <<>>]
    /\ workPc = [c \in C |-> "none"]
    /\ promise = [c \in C |-> Pending]
    /\ myHandle = [c \in C |-> NoHandle]
    /\ cdrc = [c \in C |-> 0]
    /\ dataBuilder = [c \in C |-> <<>>]
    /\ result = [c \in C |-> "unset"]
    /\ responseCode = [c \in C |-> 0]
    /\ sent = [c \in C |-> <<>>]
    /\ offered = [c \in C |-> <<>>]
    /\ idle = [c \in C |-> 0]
    /\ hist = [c \in C |-> NoHist]

InitProcess ==
    /\ _initialized = FALSE
    /\ sslSupport \in BOOLEAN
    /\ globalInits = 0
    /\ globalCleanups = 0
    /\ initLog = <<>>
    /\ testCommandsEnabled \in BOOLEAN

Init == phase = "startup" /\ InitProcess /\ InitCalls(Calls)

\* The steps of the worker that runs the unit of work of call c.
Worker(c) ==
    \/ DoPostBegin(c)
    \/ PerformStart(c)
    \/ EngineRead(c)
    \/ EngineWrite(c)
    \/ EngineTimeout(c)
    \/ EngineFinish(c)
    \/ DoPostFinish(c)

Next ==
    \/ HttpClientCurlInitializer
    \/ StaticDestructor
    \/ \E c \in Calls : PostAsyncSchedule(c)
    \/ \E c \in Calls : PostAsyncReturn(c)
    \/ \E c \in Calls : Worker(c)

Spec == Init /\ [][Next]_vars

\* The pool runs every unit of work it accepted, and the blocking transfer
\* call returns.
FairSpec == Spec /\ \A c \in Calls : WF_vars(Worker(c))

\* The runs of Spec in which no exception is thrown inside doPost.
NextNoFault ==
    \/ HttpClientCurlInitializer
    \/ StaticDestructor
    \/ \E c \in Calls : PostAsyncSchedule(c)
    \/ \E c \in Calls : PostAsyncReturn(c)
    \/ \E c \in Calls : DoPostBegin(c) /\ ~hist'[c].fault
    \/ \E c \in Calls : PerformStart(c)
    \/ \E c \in Calls : EngineRead(c)
    \/ \E c \in Calls : EngineWrite(c)
    \/ \E c \in Calls : EngineTimeout(c)
    \/ \E c \in Calls : EngineFinish(c)
    \/ \E c \in Calls : DoPostFinish(c) /\ ~hist'[c].fault

SpecNoFault == Init /\ [][NextNoFault]_vars

\* Two postAsync calls whose transfers run concurrently on the pool. The
\* inputs are kept small: payloads and bodies of at most ConcMaxLen bytes, no
\* callback that moves no byte, two status codes, https urls, no exception.
ConcCalls == {"c1", "c2"}

ConcMaxLen == 1

ConcStatusCodes == {0, 200, 404}

InitConc == phase = "startup" /\ InitProcess /\ InitCalls(ConcCalls)

SmallInputs(c) ==
    /\ Len(data[c]) <= ConcMaxLen
    /\ Len(offered[c]) <= ConcMaxLen
    /\ hist[c].req <= ConcMaxLen
    /\ idle[c] = 0
    /\ responseCode[c] \in ConcStatusCodes
    /\ url[c] = "https"
    /\ ~hist[c].fault

NextConc ==
    \/ HttpClientCurlInitializer
    \/ StaticDestructor
    \/ \E c \in ConcCalls : PostAsyncSchedule(c) /\ SmallInputs(c)'
    \/ \E c \in ConcCalls : PostAsyncReturn(c)
    \/ \E c \in ConcCalls : DoPostBegin(c) /\ SmallInputs(c)'
    \/ \E c \in ConcCalls : PerformStart(c)
    \/ \E c \in ConcCalls : EngineRead(c) /\ SmallInputs(c)'
    \/ \E c \in ConcCalls : EngineWrite(c) /\ SmallInputs(c)'
    \/ \E c \in ConcCalls : EngineTimeout(c)
    \/ \E c \in ConcCalls : EngineFinish(c) /\ SmallInputs(c)'
    \/ \E c \in ConcCalls : DoPostFinish(c) /\ SmallInputs(c)'

SpecConc == InitConc /\ [][NextConc]_vars

InitLifecycle == phase = "lifecycle" /\ InitProcess /\ InitCalls(Calls)

NextLifecycle == CallInitialize \/ StaticDestructor

SpecLifecycle == InitLifecycle /\ [][NextLifecycle]_vars

-----------------------------------------------------------------------------
(* Properties *)

Resolved(c) == promise[c].st # "pending"

Succeeded(c) == promise[c].st = "value"

Failed(c, code) == promise[c].st = "error" /\ promise[c].status.code = code

\* C1: the promise of a call is written at most once, whichever way doPost
\* ends: a null handle, a transport failure, a failed status retrieval, a
\* status other than 200, success, or an exception taken by the catch-all.
C1_PromiseWrittenAtMostOnce ==
    \A c \in DOMAIN promise : promise[c].writes <= 1

\* The catch-all handler wrote the promise of a transfer that had run.
C1_Witness ==
    \E c \in DOMAIN promise :
        /\ hist[c].fault /\ result[c] = "CURLE_OK"
        /\ promise[c].writes = 1

\* C2: every call whose work the pool accepted has its future resolved in the
\* end, to a value or to an error, and doPost never ends with the promise
\* still pending.
C2_AcceptedEventuallyResolves ==
    /\ \A c \in Calls : (workPc[c] = "queued") ~> Resolved(c)
    /\ [](\A c \in Calls : workPc[c] = "done" => Resolved(c))

\* A transfer that timed out has resolved its future to an error.
C2_Witness ==
    \E c \in DOMAIN promise :
        /\ workPc[c] = "done" /\ result[c] = "CURLE_OPERATION_TIMEDOUT"
        /\ promise[c].st = "error"

\* The four conditions C3 names.
AllFourHold(c) ==
    /\ hist[c].handle = "ok"
    /\ result[c] = "CURLE_OK"
    /\ hist[c].info = "ok"
    /\ responseCode[c] = 200

\* C3 as stated: a resolved future holds a value exactly when the handle was
\* acquired, the transfer reported no transport failure, the status code was
\* retrieved and it is 200.
C3_AsStated ==
    \A c \in DOMAIN promise : Resolved(c) => (Succeeded(c) <=> AllFourHold(c))

\* C3, amended: a resolved future holds a value exactly when the four
\* conditions hold and no exception was thrown inside doPost; in every other
\* case it holds an error.
C3_SuccessIffAllHoldAndNoFault ==
    \A c \in DOMAIN promise :
        Resolved(c) =>
            /\ Succeeded(c) <=> (AllFourHold(c) /\ ~hist[c].fault)
            /\ ~Succeeded(c) => promise[c].st = "error"

\* A transfer for which the four conditions hold, with no exception thrown,
\* resolved to a value.
C3_Witness ==
    \E c \in DOMAIN promise :
        Succeeded(c) /\ AllFourHold(c) /\ ~hist[c].fault /\ workPc[c] = "done"

\* C4: the value of a future that resolved to success is the concatenation,
\* in order, of every chunk the engine handed to the write callback.
C4_ValueIsBodyDelivered ==
    \A c \in DOMAIN promise : Succeeded(c) => promise[c].val = offered[c]

\* A body of two bytes or more, delivered in two chunks or more, arrived.
C4_Witness ==
    \E c \in DOMAIN promise :
        /\ Succeeded(c) /\ Len(promise[c].val) >= 2
        /\ hist[c].chunks >= 2

\* C5 as stated: once an append of the write callback has failed, the outcome
\* is OperationFailed, and no success ever lacks bytes the engine delivered.
C5_AsStated ==
    \A c \in DOMAIN promise :
        /\ (hist[c].appendFailed /\ Resolved(c)) => Failed(c, "OperationFailed")
        /\ Succeeded(c) => promise[c].val = offered[c]

\* C6 as stated: when the transfer completed at the transport level with a
\* status code other than 200, the future holds an OperationFailed error whose
\* message contains the digits of the code, and the body is not delivered.
C6_AsStated ==
    \A c \in DOMAIN promise :
        (Resolved(c) /\ result[c] = "CURLE_OK" /\ responseCode[c] # 200) =>
            /\ Failed(c, "OperationFailed")
            /\ Contains(promise[c].status.reason, Digits(responseCode[c]))
            /\ promise[c].val = <<>>

\* C6, amended: the same, when moreover the status code was retrieved and no
\* exception was thrown inside doPost; without that the future still holds an
\* error and no body.
C6_Non200IsOperationFailedWithCode ==
    \A c \in DOMAIN promise :
        (Resolved(c) /\ result[c] = "CURLE_OK" /\ responseCode[c] # 200) =>
            /\ promise[c].st = "error" /\ promise[c].val = <<>>
            /\ (hist[c].info = "ok" /\ ~hist[c].fault) =>
                  /\ Failed(c, "OperationFailed")
                  /\ Contains(promise[c].status.reason, Digits(responseCode[c]))

\* A 404 response with a body resolved to an error.
C6_Witness ==
    \E c \in DOMAIN promise :
        /\ Resolved(c) /\ result[c] = "CURLE_OK" /\ responseCode[c] = 404
        /\ hist[c].info = "ok" /\ ~hist[c].fault
        /\ dataBuilder[c] # <<>>

\* The protocols set on a handle are https alone with the test flag off, and
\* https and http with it on.
ProtocolsFollowFlag ==
    \A c \in DOMAIN myHandle :
        myHandle[c].state \in {"live", "released"} =>
            myHandle[c].protocols =
                IF testCommandsEnabled THEN {"https", "http"} ELSE {"https"}

\* With the test flag on, the engine never refuses an http url.
HttpProceedsInTestMode ==
    \A c \in DOMAIN promise :
        (url[c] = "http" /\ testCommandsEnabled) =>
            result[c] # "CURLE_UNSUPPORTED_PROTOCOL"

RefusedByProtocol(c) ==
    /\ Failed(c, "OperationFailed")
    /\ Contains(promise[c].status.reason, <<"CURLE_UNSUPPORTED_PROTOCOL">>)

\* C7 as stated: the protocols follow the test flag; a call to an http url
\* with the flag off never resolves to success and resolves to the failure of
\* the protocol restriction; with the flag on it is not refused.
C7_AsStated ==
    /\ ProtocolsFollowFlag
    /\ HttpProceedsInTestMode
    /\ \A c \in DOMAIN promise :
        (url[c] = "http" /\ ~testCommandsEnabled /\ Resolved(c)) =>
            RefusedByProtocol(c)

\* C7, amended: the protocols follow the test flag; a call to an http url with
\* the flag off never resolves to success, its transfer call, when reached,
\* is refused for the protocol, and its failure is that of the protocol
\* restriction whenever the handle was acquired and no exception was thrown;
\* with the flag on it is not refused.
C7_HttpOnlyInTestMode ==
    /\ ProtocolsFollowFlag
    /\ HttpProceedsInTestMode
    /\ \A c \in DOMAIN promise :
        (url[c] = "http" /\ ~testCommandsEnabled) =>
            /\ result[c] \in {"unset", "CURLE_UNSUPPORTED_PROTOCOL"}
            /\ workPc[c] \notin {"sending", "receiving"}
            /\ Resolved(c) => promise[c].st = "error"
            /\ (Resolved(c) /\ hist[c].handle = "ok" /\ ~hist[c].fault) =>
                  RefusedByProtocol(c)

\* An http call with the flag off was refused and resolved.
C7_Witness ==
    \E c \in DOMAIN promise :
        /\ url[c] = "http" /\ ~testCommandsEnabled
        /\ Resolved(c) /\ result[c] = "CURLE_UNSUPPORTED_PROTOCOL"

\* C8: when the pool rejects the work, postAsync throws: it returns no future,
\* the promise is never written and nothing of a transfer runs for the call.
C8_RejectedRaisesAndRunsNothing ==
    \A c \in DOMAIN workPc :
        workPc[c] = "rejected" =>
            /\ callerPc[c] \in {"scheduled", "raised"}
            /\ promise[c] = Pending
            /\ myHandle[c] = NoHandle
            /\ result[c] = "unset"
            /\ hist[c] = NoHist
            /\ sent[c] = <<>> /\ offered[c] = <<>> /\ dataBuilder[c] = <<>>

\* postAsync has thrown for a rejected unit of work.
C8_Witness ==
    \E c \in DOMAIN workPc : workPc[c] = "rejected" /\ callerPc[c] = "raised"

\* C9: an exception thrown inside doPost is caught there and written to the
\* promise as an error; none leaves doPost.
C9_NoFaultEscapes ==
    \A c \in DOMAIN workPc :
        /\ workPc[c] # "escaped"
        /\ hist[c].fault =>
              /\ workPc[c] = "done"
              /\ promise[c].st = "error"
              /\ promise[c].status = exceptionToStatus

\* An exception thrown after the transfer was caught.
C9_Witness ==
    \E c \in DOMAIN workPc :
        hist[c].fault /\ result[c] # "unset" /\ promise[c].st = "error"

\* C10: a call of initialize() that succeeds made one global startup if the
\* flag was clear and none if it was set, and every call after it returns OK
\* without calling curl_global_init(): two calls in sequence of which the
\* first succeeds both succeed, with exactly one startup between them when the
\* first is the one that initialized the engine.
C10_SecondInitializeIsNoOp ==
    \A i \in 1..Len(initLog) :
        initLog[i].status.code = "OK" =>
            /\ initLog[i].startups = (IF initLog[i].before THEN 0 ELSE 1)
            /\ \A j \in (i + 1)..Len(initLog) :
                /\ initLog[j].status.code = "OK"
                /\ initLog[j].startups = 0
            /\ (i = 1 /\ Len(initLog) >= 2) =>
                  /\ initLog[1].startups + initLog[2].startups = 1
                  /\ globalInits = 1

\* initialize() was called twice and the first call succeeded.
C10_Witness ==
    /\ Len(initLog) >= 2
    /\ initLog[1].status.code = "OK"
    /\ initLog[2].status.code = "OK"

\* Everything doPost, the engine and the two callbacks keep for one transfer.
TransferState(c) ==
    <<url[c], data[c], workPc[c], promise[c], myHandle[c], cdrc[c],
      dataBuilder[c], result[c], responseCode[c], sent[c], offered[c], idle[c],
      hist[c]>>

\* The promise of c holds what c's own transfer produced.
OwnOutcome(c) ==
    Resolved(c) /\ hist[c].handle = "ok" /\ ~hist[c].fault =>
        IF result[c] # "CURLE_OK"
        THEN Failed(c, "OperationFailed") /\ promise[c].status.reason[2] = result[c]
        ELSE IF hist[c].info = "failed"
        THEN Failed(c, "OperationFailed")
        ELSE IF responseCode[c] # 200
        THEN /\ Failed(c, "OperationFailed")
             /\ promise[c].status.reason =
                    <<"Unexpected http status code from server: ">>
                        \o Digits(responseCode[c])
        ELSE Succeeded(c) /\ promise[c].val = offered[c]

\* C11: with two transfers running concurrently, a step that changes the
\* state of one transfer (its cursor, its buffer, its handle, its promise)
\* changes no state of the other transfer and none of the process-wide engine
\* state; after every step the bytes sent by a transfer are the ones its own
\* cursor passed, its buffer holds the bytes offered to it, and its future is
\* resolved with the outcome of its own transfer.
C11_NoSharedTransferState ==
    [][/\ \A c \in DOMAIN workPc :
            TransferState(c)' # TransferState(c) =>
                /\ lifeVars' = lifeVars
                /\ testCommandsEnabled' = testCommandsEnabled
                /\ \A d \in DOMAIN workPc \ {c} :
                       TransferState(d)' = TransferState(d)
       /\ \A c \in DOMAIN workPc :
            /\ sent'[c] = SubSeq(data'[c], 1, cdrc'[c])
            /\ hist'[c].appendFailed \/ dataBuilder'[c] = offered'[c]
            /\ OwnOutcome(c)']_vars

\* Both transfers are in the middle of curl_easy_perform, one sending and one
\* receiving, and the other one's buffer is still empty.
C11_Witness ==
    /\ workPc["c1"] = "receiving" /\ dataBuilder["c1"] # <<>>
    /\ workPc["c2"] = "sending" /\ cdrc["c2"] > 0 /\ dataBuilder["c2"] = <<>>

\* What the unit of work does for call c: the handle, the engine call, the two
\* callbacks and the write of the promise.
TransferWork(c) ==
    <<myHandle[c], cdrc[c], dataBuilder[c], result[c], responseCode[c], sent[c],
      offered[c], idle[c], hist[c], promise[c].writes>>

\* C12: a step of postAsync on the calling thread does none of the transfer
\* work; the handle is acquired, the engine runs and the callbacks are called
\* only in steps of the unit of work the pool accepted, which is begun once;
\* and postAsync, once it has scheduled the work, can always return, whether
\* or not the promise is written.
C12_PostAsyncDoesNoTransferWork ==
    /\ [][\A c \in DOMAIN workPc :
            /\ callerPc'[c] # callerPc[c] => TransferWork(c)' = TransferWork(c)
            /\ TransferWork(c)' # TransferWork(c) =>
                   InFlight(c) /\ callerPc'[c] = callerPc[c]
            /\ hist'[c].handle # hist[c].handle =>
                   workPc[c] = "queued" /\ hist[c].handle = "unset"]_vars
    /\ [](\A c \in DOMAIN workPc :
            callerPc[c] = "scheduled" => ENABLED PostAsyncReturn(c))

\* postAsync has returned its future while the transfer is still running on
\* the pool and the promise is not written.
C12_Witness ==
    \E c \in DOMAIN workPc :
        /\ callerPc[c] = "returned"
        /\ workPc[c] = "receiving"
        /\ promise[c].st = "pending"

\* C13 as the specification states it: whatever initialize() calls were made,
\* curl_global_init() has run at most once, and _initialized is set only if
\* the engine has SSL support.
C13_AsStated ==
    /\ globalInits <= 1
    /\ _initialized => sslSupport

\* C13: every initialize() call made while _initialized is clear runs
\* curl_global_init() once, so a call after a failed call runs it again; no
\* call made with _initialized set runs it; at most one call sets the flag,
\* and the flag is set only if the engine has SSL support.
C13_StartupOncePerCallUntilSuccess ==
    /\ \A i \in 1..Len(initLog) :
           initLog[i].startups = IF initLog[i].before THEN 0 ELSE 1
    /\ globalInits = Cardinality({i \in 1..Len(initLog) : ~initLog[i].before})
    /\ Cardinality({i \in 1..Len(initLog) :
                       ~initLog[i].before /\ initLog[i].status.code = "OK"}) <= 1
    /\ \A i \in 1..Len(initLog) :
           initLog[i].status.code = "OK" => sslSupport
    /\ _initialized => sslSupport

\* A first call failed in curl_global_init(), a second call ran it again and
\* succeeded.
C13_Witness ==
    /\ Len(initLog) >= 2
    /\ initLog[1].status.code = "InternalError"
    /\ initLog[2].status.code = "OK"
    /\ globalInits = 2
    /\ _initialized

SomeInitializeSucceeded ==
    \E i \in 1..Len(initLog) : initLog[i].status.code = "OK"

\* C14: curl_global_cleanup() runs at most once, only in the step that ends
\* the process, and only if some initialize() call returned success, which is
\* when _initialized is set; a process in which no call succeeded exits
\* without it; and once it has run, curl_global_init() is not run again.
C14_TeardownOnceAtExitIfInitialized ==
    /\ [](globalCleanups <= 1)
    /\ [](SomeInitializeSucceeded <=> _initialized)
    /\ [](globalCleanups = 1 => phase = "exited" /\ SomeInitializeSucceeded)
    /\ [](phase = "exited" /\ ~SomeInitializeSucceeded => globalCleanups = 0)
    /\ [][/\ globalCleanups' # globalCleanups =>
                phase # "exited" /\ phase' = "exited"
          /\ globalCleanups > 0 \/ phase = "exited" =>
                globalInits' = globalInits /\ initLog' = initLog]_vars

\* The process has exited after a failed and a successful initialize(), and
\* the teardown has run.
C14_Witness ==
    /\ phase = "exited"
    /\ globalCleanups = 1
    /\ Len(initLog) >= 2
    /\ initLog[1].status.code # "OK"

\* doPost is between curl_easy_init() and curl_easy_cleanup(), or inside
\* curl_easy_perform().
UsesEngine(c) ==
    \/ workPc[c] \in {"perform", "sending", "receiving", "performed"}
    \/ myHandle[c].state = "live"

C16_AsStated ==
    \A c \in DOMAIN workPc :
        hist[c].chunks > 0 =>
            /\ hist[c].appendOk => ~hist[c].shortCount
            /\ ~hist[c].appendOk => hist[c].shortCount

\* A step in which the engine called the read callback of transfer c.
ReadStep(c) ==
    /\ workPc[c] = "sending" /\ workPc'[c] = "sending"
    /\ <<cdrc[c], sent[c], idle[c], hist[c]>>' # <<cdrc[c], sent[c], idle[c], hist[c]>>

\* C17: a call of the read callback that asks for m bytes while r bytes are
\* unread copies the min(m, r) bytes at the cursor, advances the cursor by
\* that number and returns it; it copies no more than r and no more than m.
C17_ReadCopiesMinOfRequestAndRest ==
    [][\A c \in DOMAIN workPc :
        ReadStep(c) =>
            LET m == hist'[c].req
                r == Len(data[c]) - cdrc[c]
                n == IF m < r THEN m ELSE r
            IN  /\ hist'[c].ret = n
                /\ cdrc'[c] = cdrc[c] + n
                /\ sent'[c] = sent[c] \o [i \in 1..n |-> data[c][cdrc[c] + i]]
                /\ Len(sent'[c]) - Len(sent[c]) <= r
                /\ Len(sent'[c]) - Len(sent[c]) <= m]_vars

\* The engine asked for two bytes when one was left, and got that one.
C17_Witness ==
    \E c \in DOMAIN workPc :
        /\ hist[c].req = 2 /\ hist[c].ret = 1
        /\ Len(data[c]) = 2 /\ cdrc[c] = 2

\* C18: whatever sizes the engine asks for, the cursor never moves back and
\* never passes the end of the payload, the invariant on advance() holds in
\* every call, and a call made when nothing is unread returns 0 and leaves the
\* cursor where it is.
C18_CursorMonotoneAndBounded ==
    /\ [](\A c \in DOMAIN workPc :
            /\ 0 <= cdrc[c] /\ cdrc[c] <= Len(data[c])
            /\ hist[c].advanceOk)
    /\ [][\A c \in DOMAIN workPc :
            /\ cdrc'[c] >= cdrc[c]
            /\ ReadStep(c) /\ cdrc[c] = Len(data[c]) =>
                   /\ hist'[c].ret = 0
                   /\ cdrc'[c] = cdrc[c]
                   /\ sent'[c] = sent[c]]_vars

\* A payload was read to its end and the callback was called once more.
C18_Witness ==
    \E c \in DOMAIN workPc :
        /\ Len(data[c]) > 0 /\ cdrc[c] = Len(data[c])
        /\ hist[c].req > 0 /\ hist[c].ret = 0
        /\ idle[c] > 0

\* C20: the bytes handed to the engine so far are a prefix of the payload;
\* the callback returns 0 only when nothing is unread or 0 bytes were asked
\* for; when it has returned 0 to a request of one byte or more, the bytes
\* handed over are the whole payload; and the payload's length is the
\* CURLOPT_POSTFIELDSIZE set before curl_easy_perform is called.
C20_SentIsPrefixAndCompleteAtZero ==
    \A c \in DOMAIN workPc :
        /\ Len(sent[c]) <= Len(data[c])
        /\ \A i \in 1..Len(sent[c]) : sent[c][i] = data[c][i]
        /\ hist[c].ret = 0 => hist[c].req = 0 \/ Len(sent[c]) = Len(data[c])
        /\ hist[c].ret = 0 /\ hist[c].req > 0 =>
               sent[c] = data[c] /\ Len(sent[c]) = myHandle[c].postFieldSize
        /\ workPc[c] \in {"perform", "sending", "receiving", "performed"} =>
               myHandle[c].postFieldSize = Len(data[c])

\* A payload of two bytes went out in two calls and a third call returned 0.
C20_Witness ==
    \E c \in DOMAIN workPc :
        /\ Len(data[c]) = 2 /\ sent[c] = data[c]
        /\ hist[c].req = 1 /\ hist[c].ret = 0
        /\ myHandle[c].postFieldSize = 2

\* After curl_easy_init() returned null for c: doPost is over, no option was
\* set on a handle, curl_easy_perform was not called, no callback ran, the
\* cursor and the DataBuilder are as they were made.
StoppedAtNullHandle(c) ==
    /\ workPc[c] = "done"
    /\ myHandle[c] = [NoHandle EXCEPT !.state = "null"]
    /\ result[c] = "unset" /\ responseCode[c] = 0
    /\ cdrc[c] = 0 /\ sent[c] = <<>>
    /\ dataBuilder[c] = <<>> /\ offered[c] = <<>>
    /\ hist[c].chunks = 0 /\ hist[c].req = -1 /\ idle[c] = 0

\* C19 as stated: when curl_easy_init() returned null, the future holds the
\* initialization failure and doPost stopped there.
C19_AsStated ==
    \A c \in DOMAIN workPc :
        hist[c].handle = "null" =>
            /\ promise[c].st = "error"
            /\ promise[c].status =
                   MkStatus("InternalError", <<"Curl initialization failed">>)
            /\ StoppedAtNullHandle(c)

\* C19: when curl_easy_init() returned null, doPost stopped there, and the
\* future holds, written once, the InternalError "Curl initialization failed",
\* or, when an exception was raised while that error was built, the catch-all
\* handler's status.
C19_NullHandleStopsWithError ==
    \A c \in DOMAIN workPc :
        hist[c].handle = "null" =>
            /\ promise[c].st = "error" /\ promise[c].writes = 1
            /\ promise[c].status =
                   IF hist[c].fault THEN exceptionToStatus
                   ELSE MkStatus("InternalError", <<"Curl initialization failed">>)
            /\ StoppedAtNullHandle(c)

\* curl_easy_init() returned null and the initialization error is in the
\* future.
C19_Witness ==
    \E c \in DOMAIN workPc :
        /\ hist[c].handle = "null" /\ ~hist[c].fault
        /\ Failed(c, "InternalError")
        /\ callerPc[c] = "returned"

=============================================================================
